---- MODULE Spec2Model ----
(***************************************************************************)
(* A model of pygameMenu's TextInput widget (widgets/textinput.py) and of  *)
(* its Sound manager (sound.py).                                           *)
(*                                                                         *)
(* Strings are sequences of one-character strings.  Python's True, False   *)
(* and None are the strings "True", "False" and "None"; an exception that  *)
(* leaves a call is recorded by its class name.                            *)
(*                                                                         *)
(* Of TextInput the model keeps the text, the cursor, the render box, the  *)
(* history of editions and the key-repeat counters.  It leaves out what    *)
(* only draws (surfaces, the blinking cursor), the mouse, _last_key (never *)
(* read) and the calls on self.sound, whose object belongs to Widget; the  *)
(* Sound manager is modelled on its own.  Widget.change() is counted,      *)
(* Widget.check_key_pressed_valid() is an input of each KEYDOWN event.     *)
(***************************************************************************)
EXTENDS Integers, Sequences, FiniteSets, TLC

VARIABLES
    pc,        \* "new" before a constructor is called, then "widget", "raised" or
               \* "sound"; "args", then "checked" or "value", for a method on its own
    args,      \* the arguments the constructor was called with
    textinput, \* the TextInput object (its fields), NoWidget when there is none
    ret,       \* what the last call returned
    raised,    \* the exception that left the last call, "none" when it returned
    changes,   \* how many times the last update() call invoked self.change()
    posted,    \* the (key, unicode) pairs the last update() call posted as KEYDOWN
    keyboard,  \* the keys held down: key -> the press's unicode and the frame time since
    sound,     \* the Sound object (its fields), NoSound when there is none
    mixer      \* pygame's mixer: its channels, the time, the calls the last operation made

vars == <<pc, args, textinput, ret, raised, changes, posted, keyboard, sound, mixer>>

-----------------------------------------------------------------------------
(* Python helpers *)

Max(a, b) == IF a >= b THEN a ELSE b
Min(a, b) == IF a <= b THEN a ELSE b

\* s[i] position of a slice bound in a sequence of length n
PyBound(i, n) == IF i < 0 THEN Max(i + n, 0) ELSE Min(i, n)

\* s[a:b]
PySlice(s, a, b) == SubSeq(s, PyBound(a, Len(s)) + 1, PyBound(b, Len(s)))

\* list.insert(i, x)
PyInsert(s, i, x) ==
    LET k == PyBound(i, Len(s))
    IN SubSeq(s, 1, k) \o <<x>> \o SubSeq(s, k + 1, Len(s))

\* whether s[i] exists (otherwise IndexError)
PyHasIndex(s, i) == -Len(s) <= i /\ i < Len(s)

\* s[i]
PyIndex(s, i) == IF i < 0 THEN s[i + Len(s) + 1] ELSE s[i + 1]

-----------------------------------------------------------------------------
(* Input types (pygameMenu.locals) *)

PYGAME_INPUT_TEXT == "__pygameMenu_input_text__"
PYGAME_INPUT_INT == "__pygameMenu_input_int__"
PYGAME_INPUT_FLOAT == "__pygameMenu_input_float__"
OTHER_INPUT == "other"

Digits == {"0", "1"}

IsDigits(s) == Len(s) > 0 /\ \A i \in 1..Len(s) : s[i] \in Digits

Unsigned(s) == IF Len(s) > 0 /\ s[1] = "-" THEN Tail(s) ELSE s

\* int(s) does not raise ValueError: an optional sign, then digits
int_parses(s) == IsDigits(Unsigned(s))

\* float(s) does not raise ValueError: an optional sign, then digits with at
\* most one point among them and a digit on one side of it at least
float_parses(s) ==
    LET u == Unsigned(s)
        points == {i \in 1..Len(u) : u[i] = "."}
    IN /\ Cardinality(points) <= 1
       /\ \A i \in 1..Len(u) : u[i] \in Digits \cup {"."}
       /\ \E i \in 1..Len(u) : u[i] \in Digits

\* the number a string of digits reads as ("" as 0)
RECURSIVE digits_value(_)
digits_value(s) ==
    IF s = <<>> THEN 0
    ELSE 10 * digits_value(SubSeq(s, 1, Len(s) - 1))
         + (IF s[Len(s)] = "1" THEN 1 ELSE 0)

\* -1 for a string with a minus sign, 1 otherwise
sign_of(s) == IF Len(s) > 0 /\ s[1] = "-" THEN -1 ELSE 1

\* a number: an int, or a float num / 10^scale with the least scale >= 0
Number(kind, num, scale) == [kind |-> kind, num |-> num, scale |-> scale]

RECURSIVE reduced(_, _)
reduced(num, scale) ==
    IF scale > 0 /\ num % 10 = 0 THEN reduced(num \div 10, scale - 1)
    ELSE Number("float", num, scale)

\* int(s), for a string int() parses
int_value(s) == Number("int", sign_of(s) * digits_value(Unsigned(s)), 0)

\* float(s), for a string float() parses
float_value(s) ==
    LET u == Unsigned(s)
        digits == SelectSeq(u, LAMBDA c : c # ".")
        point == IF \E i \in 1..Len(u) : u[i] = "."
                 THEN CHOOSE i \in 1..Len(u) : u[i] = "." ELSE Len(u)
        r == reduced(digits_value(digits), Len(u) - point)
    IN Number("float", sign_of(s) * r.num, r.scale)

-----------------------------------------------------------------------------
(* TextInput: the fields of the object are the fields of the record w *)

\* get_value with the conversions of _check_input_type (int for a float field,
\* float for an int field)
get_value_swapped(input_type, input_string) ==
    IF input_type = PYGAME_INPUT_TEXT THEN [kind |-> "str", text |-> input_string]
    ELSE IF input_type = PYGAME_INPUT_FLOAT
    THEN IF int_parses(input_string) THEN int_value(input_string)
         ELSE Number("int", 0, 0)
    ELSE IF input_type = PYGAME_INPUT_INT
    THEN IF float_parses(input_string) THEN float_value(input_string)
         ELSE Number("int", 0, 0)
    ELSE [kind |-> "str", text |-> <<>>]

\* TextInput.get_value
get_value(input_type, input_string) ==
    IF input_type = PYGAME_INPUT_TEXT THEN [kind |-> "str", text |-> input_string]
    ELSE IF input_type = PYGAME_INPUT_FLOAT
    THEN IF float_parses(input_string) THEN float_value(input_string)
         ELSE Number("int", 0, 0)
    ELSE IF input_type = PYGAME_INPUT_INT
    THEN IF int_parses(input_string) THEN int_value(input_string)
         ELSE Number("int", 0, 0)
    ELSE [kind |-> "str", text |-> <<>>]

\* TextInput._check_input_size
check_input_size(w) ==
    IF w.maxchar = 0 THEN FALSE ELSE w.maxchar < Len(w.input_string)

\* TextInput._check_input_type
check_input_type(input_type, string) ==
    IF string = <<>> THEN TRUE
    ELSE IF input_type = PYGAME_INPUT_TEXT THEN TRUE
    ELSE IF string = <<"-">> THEN TRUE
    ELSE IF input_type = PYGAME_INPUT_FLOAT THEN int_parses(string)
    ELSE IF input_type = PYGAME_INPUT_INT THEN float_parses(string)
    ELSE FALSE

\* the last three statements of _update_renderbox ("Apply limits")
renderbox_limits(rb, maxwidth, ls) ==
    <<Max(0, rb[1]), Max(0, rb[2]), Max(0, Min(rb[3], Min(maxwidth, ls)))>>

\* _update_renderbox, the branch "If no overflow" (ls <= maxwidth)
renderbox_no_overflow(rb, maxwidth, ls, left, right, addition) ==
    IF right < 0 /\ rb[3] = ls THEN rb
    ELSE LET r1 == IF addition
                   THEN rb[2] + (IF left < 0 THEN left ELSE 0) + right
                   ELSE rb[2]
             r2 == IF addition /\ right < 0 THEN rb[3] - right ELSE rb[3]
         IN renderbox_limits(<<0, r1, r2 + left + right>>, maxwidth, ls)

\* _update_renderbox, the branch of a text longer than maxwidth, addition=True
renderbox_overflow_addition(rb, maxwidth, ls, left, right) ==
    LET a == IF right < 0 /\ rb[1] # 0 /\ rb[2] - 1 = ls
             THEN <<rb[1], rb[2], rb[3] - right>> ELSE rb
        b == IF right > 0
             THEN IF a[3] = maxwidth
                  THEN <<a[1] + right, a[2] + right, a[3] + right>>
                  ELSE <<a[1], a[2], a[3] + right>>
             ELSE a
        c == IF left < 0
             THEN IF b[1] = 0
                  THEN <<b[1] + left, b[2] + left, b[3] + left>>
                  ELSE <<b[1] + left, b[2] + left, b[3]>>
             ELSE b
    IN c

\* _update_renderbox, the branch of a text longer than maxwidth, addition=False
renderbox_overflow_move(rb, maxwidth, left, right) ==
    LET inner == rb[3] + right + left
        a == IF inner < 0 THEN <<rb[1] + left, rb[2] + left, inner>>
             ELSE <<rb[1], rb[2], inner>>
        b == IF inner > maxwidth THEN <<a[1] + right, a[2] + right, inner>>
             ELSE a
    IN b

\* _update_renderbox, the branch of a text longer than maxwidth
renderbox_overflow(rb, maxwidth, ls, left, right, addition) ==
    IF addition /\ right < 0 /\ rb[3] = maxwidth THEN rb
    ELSE IF addition /\ left < 0 /\ rb[3] = 0 THEN rb
    ELSE LET a == IF addition
                  THEN renderbox_overflow_addition(rb, maxwidth, ls, left, right)
                  ELSE renderbox_overflow_move(rb, maxwidth, left, right)
             r1 == Max(maxwidth, Min(a[2], ls))
         IN renderbox_limits(<<r1 - maxwidth, r1, a[3]>>, maxwidth, ls)

\* TextInput._update_renderbox
update_renderbox(w, left, right, addition, end, start) ==
    LET ls == Len(w.input_string)
        mw == w.maxwidth
        rb == w.renderbox
    IN IF mw = 0 THEN w
       ELSE IF end
       THEN [w EXCEPT !.renderbox = <<Max(0, ls - mw), ls, Min(ls, mw)>>]
       ELSE IF start
       THEN [w EXCEPT !.renderbox = <<0, Min(ls, mw), 0>>]
       ELSE IF left < 0 /\ ls = 0 THEN w
       ELSE IF ls <= mw
       THEN [w EXCEPT !.renderbox =
                      renderbox_no_overflow(rb, mw, ls, left, right, addition)]
       ELSE [w EXCEPT !.renderbox =
                      renderbox_overflow(rb, mw, ls, left, right, addition)]

\* TextInput._move_cursor_left
move_cursor_left(w) ==
    update_renderbox([w EXCEPT !.cursor_position = Max(w.cursor_position - 1, 0)],
                     -1, 0, FALSE, FALSE, FALSE)

\* TextInput._move_cursor_right
move_cursor_right(w) ==
    update_renderbox(
        [w EXCEPT !.cursor_position = Min(w.cursor_position + 1, Len(w.input_string))],
        0, 1, FALSE, FALSE, FALSE)

\* "for i in range(n): self._move_cursor_right()"
RECURSIVE move_cursor_right_times(_, _)
move_cursor_right_times(w, n) ==
    IF n <= 0 THEN w ELSE move_cursor_right_times(move_cursor_right(w), n - 1)

\* _update_input_string: "self._history.pop(0)" and the two pops after it
history_pop(w) ==
    [w EXCEPT !.history = Tail(w.history),
              !.history_cursor = Tail(w.history_cursor),
              !.history_renderbox = Tail(w.history_renderbox)]

\* history_add without "if len(self._history) > self._max_history: ...pop(0)"
history_add_untrimmed(w, new_string) ==
    [w EXCEPT
       !.history = PyInsert(w.history, w.history_index, new_string),
       !.history_cursor =
           PyInsert(w.history_cursor, w.history_index, w.cursor_position),
       !.history_renderbox =
           PyInsert(w.history_renderbox, w.history_index, w.renderbox),
       !.history_index = Len(w.history) + 1]

\* _update_input_string: "Add new status to history", trimmed to max_history
history_add(w, new_string) ==
    LET a == [w EXCEPT
                !.history = PyInsert(w.history, w.history_index, new_string),
                !.history_cursor =
                    PyInsert(w.history_cursor, w.history_index, w.cursor_position),
                !.history_renderbox =
                    PyInsert(w.history_renderbox, w.history_index, w.renderbox)]
        b == IF Len(a.history) > a.max_history THEN history_pop(a) ELSE a
    IN [b EXCEPT !.history_index = Len(b.history)]

\* _update_input_string: "If last edition is different than the new one"
history_differs(w, new_string) ==
    LET l_history == Len(w.history)
    IN /\ \/ l_history > 0 /\ w.history[l_history] # new_string
          \/ l_history = 0
       /\ w.max_history > 0

\* TextInput._update_input_string
RECURSIVE update_input_string(_, _)
update_input_string(w, new_string) ==
    LET l_history == Len(w.history)
        a == IF history_differs(w, new_string)
             THEN LET b == IF w.history_index # l_history
                           THEN update_input_string(
                                    [w EXCEPT !.history_index = Len(w.history)],
                                    PyIndex(w.history, w.history_index))
                           ELSE w
                  IN history_add(b, new_string)
             ELSE w
    IN [a EXCEPT !.input_string = new_string]

\* a call's outcome: the object after it, what it returned, what it raised and
\* how many times it called self.change()
Outcome(obj, value, exc, n) ==
    [obj |-> obj, ret |-> value, raised |-> exc, changes |-> n]

\* TextInput._update_from_history
update_from_history(w) ==
    IF ~PyHasIndex(w.history, w.history_index)
    THEN Outcome(w, "None", "IndexError", 0)
    ELSE Outcome([w EXCEPT
                    !.input_string = PyIndex(w.history, w.history_index),
                    !.renderbox = PyIndex(w.history_renderbox, w.history_index),
                    !.cursor_position = PyIndex(w.history_cursor, w.history_index)],
                 "None", "none", 0)

\* TextInput._undo
undo(w) ==
    IF w.history_index = 0 THEN Outcome(w, "False", "none", 0)
    ELSE LET i == IF w.history_index = Len(w.history)
                  THEN w.history_index - 1 ELSE w.history_index
             r == update_from_history([w EXCEPT !.history_index = Max(0, i - 1)])
         IN [r EXCEPT !.ret = IF r.raised = "none" THEN "True" ELSE "None"]

\* TextInput._redo
redo(w) ==
    IF w.history_index = Len(w.history) - 1 THEN Outcome(w, "False", "none", 0)
    ELSE LET r == update_from_history(
                      [w EXCEPT !.history_index =
                                    Min(Len(w.history) - 1, w.history_index + 1)])
         IN [r EXCEPT !.ret = IF r.raised = "none" THEN "True" ELSE "None"]

\* TextInput._copy: the value returned
copy_returns(w) == IF w.block_copy_paste THEN "False" ELSE "True"

\* TextInput._copy: the object afterwards
copy(w) == [w EXCEPT !.block_copy_paste = TRUE]

\* TextInput._cut
cut(w) ==
    Outcome(update_input_string(
                [copy(w) EXCEPT !.cursor_position = 0, !.renderbox = <<0, 0, 0>>],
                <<>>),
            "None", "none", 0)

Whitespace == {" ", "\t", "\n", "\r"}

\* str.strip()
RECURSIVE strip(_)
strip(s) ==
    IF s = <<>> THEN s
    ELSE IF s[1] \in Whitespace THEN strip(Tail(s))
    ELSE IF s[Len(s)] \in Whitespace THEN strip(SubSeq(s, 1, Len(s) - 1))
    ELSE s

\* _paste: "for i in ['\n', '\r']: text = text.replace(i, '')"
remove_newlines(s) == SelectSeq(s, LAMBDA c : c \notin {"\n", "\r"})

\* _paste: text.translate(escapes), escapes the 31 characters chr(1)..chr(31):
\* a character c below chr(31) becomes escapes[ord(c)] = chr(ord(c) + 1), any
\* other is kept; of the characters modelled only the tab (chr(9)) is below
translate(s) == [i \in 1..Len(s) |-> IF s[i] = "\t" THEN "\n" ELSE s[i]]

\* _paste: the text read from the clipboard, cleaned
paste_text(clip) == translate(remove_newlines(strip(clip)))

\* _paste: "Cut string (if limit exists)": text_end
paste_text_end(w, text) ==
    IF w.maxchar # 0
    THEN Min(w.maxchar - Len(w.input_string) + 1, Len(text))
    ELSE Len(text)

\* TextInput._paste, clip being what pyperclip's paste() returns
paste(w, clip) ==
    LET text == paste_text(clip)
        text_end == paste_text_end(w, text)
        new_string == PySlice(w.input_string, 0, w.cursor_position)
                      \o PySlice(text, 0, text_end)
                      \o PySlice(w.input_string, w.cursor_position, Len(w.input_string))
    IN IF w.block_copy_paste THEN Outcome(w, "False", "none", 0)
       ELSE IF text = <<>> THEN Outcome(w, "False", "none", 0)
       ELSE IF w.maxchar # 0 /\ text_end <= 0 THEN Outcome(w, "False", "none", 0)
       ELSE IF check_input_type(w.input_type, new_string)
       THEN LET a == move_cursor_right_times(
                         [w EXCEPT !.input_string = new_string], Len(text) + 1)
                b == update_input_string(a, new_string)
            IN Outcome([b EXCEPT !.block_copy_paste = TRUE], "True", "none", 1)
       ELSE Outcome(w, "False", "none", 0)

-----------------------------------------------------------------------------
(* Keys and events *)

K_BACKSPACE == "K_BACKSPACE"
K_DELETE == "K_DELETE"
K_RIGHT == "K_RIGHT"
K_LEFT == "K_LEFT"
K_END == "K_END"
K_HOME == "K_HOME"
K_RETURN == "K_RETURN"
K_c == "K_c"
K_v == "K_v"
K_z == "K_z"
K_y == "K_y"
K_x == "K_x"
MENU_CTRL_ENTER == K_RETURN

\* TextInput.__init__: self._ignore_keys
ignore_keys ==
    {"K_UP", "K_DOWN", "K_LCTRL", "K_RCTRL", "K_LSHIFT", "K_RSHIFT",
     "K_NUMLOCK", "K_CAPSLOCK", "K_TAB", K_RETURN, "K_ESCAPE"}

KEYDOWN == "KEYDOWN"
KEYUP == "KEYUP"

\* a pygame event as update() reads it: ctrl is pygame.key.get_mods() & KMOD_CTRL
\* and clip the clipboard's text while the event is handled, valid what
\* Widget.check_key_pressed_valid(event) answers
Event(type, key, unicode, ctrl, clip, valid) ==
    [type |-> type, key |-> key, unicode |-> unicode, ctrl |-> ctrl,
     clip |-> clip, valid |-> valid]

\* how the handling of one event leaves the loop of update(): ctl is "next"
\* (the loop goes on), "break" or "return"
Flow(o, ctl, updated) ==
    [obj |-> o.obj, ret |-> o.ret, raised |-> o.raised, changes |-> o.changes,
     ctl |-> ctl, updated |-> updated, handled |-> 0]

\* update(): "User press ctrl+something"
ctrl_command(w, event) ==
    IF event.key = K_c THEN Flow(Outcome(copy(w), copy_returns(w), "none", 0), "return", FALSE)
    ELSE IF event.key = K_v THEN Flow(paste(w, event.clip), "return", FALSE)
    ELSE IF event.key = K_z THEN Flow(undo(w), "return", FALSE)
    ELSE IF event.key = K_y THEN Flow(redo(w), "return", FALSE)
    ELSE IF event.key = K_x THEN Flow(cut(w), "return", FALSE)
    ELSE Flow(Outcome(w, "False", "none", 0), "return", FALSE)

\* update(): event.key == K_BACKSPACE
key_backspace(w) ==
    LET new_string == PySlice(w.input_string, 0, Max(w.cursor_position - 1, 0))
                      \o PySlice(w.input_string, w.cursor_position, Len(w.input_string))
        a == update_renderbox(update_input_string(w, new_string),
                              -1, 0, TRUE, FALSE, FALSE)
    IN Outcome([a EXCEPT !.cursor_position = Max(a.cursor_position - 1, 0)],
               "None", "none", 1)

\* update(): event.key == K_DELETE
key_delete(w) ==
    LET new_string == PySlice(w.input_string, 0, w.cursor_position)
                      \o PySlice(w.input_string, w.cursor_position + 1, Len(w.input_string))
    IN Outcome(update_renderbox(update_input_string(w, new_string),
                                0, -1, TRUE, FALSE, FALSE),
               "None", "none", 1)

\* update(): "If unwanted escape sequences": repr(event.unicode) holds \x or \r
is_escaped(unicode) ==
    \E i \in 1..Len(unicode) : unicode[i] \in {"\r", "\f", "\\x08", "\\x7f"}

\* update(): "elif event.key not in self._ignore_keys"
key_text(w, event) ==
    LET new_string == PySlice(w.input_string, 0, w.cursor_position)
                      \o event.unicode
                      \o PySlice(w.input_string, w.cursor_position, Len(w.input_string))
    IN IF check_input_size(w) THEN Flow(Outcome(w, "None", "none", 0), "break", FALSE)
       ELSE IF is_escaped(event.unicode)
       THEN Flow(Outcome(w, "False", "none", 0), "return", FALSE)
       ELSE IF check_input_type(w.input_type, new_string) /\ Len(event.unicode) > 0
       THEN LET a == update_renderbox(
                         [w EXCEPT !.cursor_position = w.cursor_position + 1,
                                   !.input_string = new_string],
                         0, 1, TRUE, FALSE, FALSE)
            IN Flow(Outcome(update_input_string(a, new_string), "None", "none", 1),
                    "next", TRUE)
       ELSE Flow(Outcome(w, "None", "none", 0), "next", FALSE)

\* update(): the branch of a KEYDOWN event
key_down(w, event) ==
    LET a == [w EXCEPT
                !.key_is_pressed = TRUE,
                !.keyrepeat_counters =
                    IF event.key \notin DOMAIN @ /\ event.key \notin ignore_keys
                    THEN (event.key :> <<0, event.unicode>>) @@ @
                    ELSE @]
    IN IF ~event.valid THEN Flow(Outcome(w, "None", "none", 0), "next", FALSE)
       ELSE IF event.ctrl THEN ctrl_command(a, event)
       ELSE IF event.key = K_BACKSPACE THEN Flow(key_backspace(a), "next", TRUE)
       ELSE IF event.key = K_DELETE THEN Flow(key_delete(a), "next", TRUE)
       ELSE IF event.key = K_RIGHT
       THEN Flow(Outcome(move_cursor_right(a), "None", "none", 0), "next", TRUE)
       ELSE IF event.key = K_LEFT
       THEN Flow(Outcome(move_cursor_left(a), "None", "none", 0), "next", TRUE)
       ELSE IF event.key = K_END
       THEN Flow(Outcome(update_renderbox(
                             [a EXCEPT !.cursor_position = Len(a.input_string)],
                             0, 0, FALSE, TRUE, FALSE),
                         "None", "none", 0), "next", TRUE)
       ELSE IF event.key = K_HOME
       THEN Flow(Outcome(update_renderbox([a EXCEPT !.cursor_position = 0],
                                          0, 0, FALSE, FALSE, TRUE),
                         "None", "none", 0), "next", TRUE)
       ELSE IF event.key = MENU_CTRL_ENTER
       THEN Flow(Outcome(a, "None", "none", 0), "next", TRUE)
       ELSE IF event.key \notin ignore_keys THEN key_text(a, event)
       ELSE Flow(Outcome(a, "None", "none", 0), "next", FALSE)

\* update(): the branch of a KEYUP event
key_up(w, event) ==
    [w EXCEPT
       !.keyrepeat_counters = [k \in DOMAIN @ \ {event.key} |-> @[k]],
       !.block_copy_paste = FALSE,
       !.key_is_pressed = FALSE]

\* update(): one pass of "for event in events"
handle_event(w, event) ==
    IF event.type = KEYDOWN THEN key_down(w, event)
    ELSE IF event.type = KEYUP
    THEN Flow(Outcome(key_up(w, event), "None", "none", 0), "next", FALSE)
    ELSE Flow(Outcome(w, "None", "none", 0), "next", FALSE)

\* the flow after one more event, the i-th: g is how its handling left the loop
flow_after(f, g, i) ==
    [g EXCEPT !.changes = f.changes + g.changes,
              !.updated = f.updated \/ g.updated,
              !.handled = i]

\* update(): "for event in events", from the i-th event on; f is the flow so far
RECURSIVE handle_events(_, _, _)
handle_events(f, events, i) ==
    IF i > Len(events) \/ f.ctl # "next" \/ f.raised # "none" THEN f
    ELSE handle_events(flow_after(f, handle_event(f.obj, events[i]), i),
                       events, i + 1)

\* update(): "Update key counters": the counter of key k after time_clock ms
counter_after(w, k, time_clock) ==
    IF w.keyrepeat_counters[k][1] + time_clock >= w.keyrepeat_initial_interval_ms
    THEN w.keyrepeat_initial_interval_ms - w.keyrepeat_interval_ms
    ELSE w.keyrepeat_counters[k][1] + time_clock

\* update(): "Generate new key events if enough time has passed"
key_repeats(w, k, time_clock) ==
    w.keyrepeat_counters[k][1] + time_clock >= w.keyrepeat_initial_interval_ms

\* update(): "Update key counters"
update_key_counters(w, time_clock) ==
    [w EXCEPT !.keyrepeat_counters =
        [k \in DOMAIN @ |-> <<counter_after(w, k, time_clock), @[k][2]>>]]

\* update(): the events posted by "Update key counters"
posted_events(w, time_clock) ==
    {<<k, w.keyrepeat_counters[k][2]>> :
        k \in {j \in DOMAIN w.keyrepeat_counters : key_repeats(w, j, time_clock)}}

\* update(): what follows "for event in events", f being how the loop was
\* left: nothing after a return in the loop or an exception, otherwise "Update
\* key counters" and "return updated"
after_events(f, time_clock) ==
    IF f.raised # "none" \/ f.ctl = "return"
    THEN [obj |-> f.obj, ret |-> f.ret, raised |-> f.raised,
          changes |-> f.changes, posted |-> {}, handled |-> f.handled]
    ELSE [obj |-> update_key_counters(f.obj, time_clock),
          ret |-> IF f.updated THEN "True" ELSE "False",
          raised |-> "none", changes |-> f.changes,
          posted |-> posted_events(f.obj, time_clock), handled |-> f.handled]

\* TextInput.update: time_clock is self._clock.get_time()
update(w, events, time_clock) ==
    after_events(
        handle_events(Flow(Outcome(w, "None", "none", 0), "next", FALSE), events, 1),
        time_clock)

-----------------------------------------------------------------------------
(* Construction *)

NoWidget == "NoWidget"
NoArgs == "NoArgs"

\* TextInput.__init__: the fields as set before "Set default value"
new_fields(a) ==
    [input_string |-> <<>>,
     block_copy_paste |-> FALSE,
     key_is_pressed |-> FALSE,
     keyrepeat_counters |-> <<>>,
     keyrepeat_initial_interval_ms |-> a.repeat_keys_initial_ms,
     keyrepeat_interval_ms |-> a.repeat_keys_interval_ms,
     renderbox |-> <<0, 0, 0>>,
     cursor_position |-> 0,
     history |-> <<>>,
     history_cursor |-> <<>>,
     history_renderbox |-> <<>>,
     history_index |-> 0,
     max_history |-> a.history,
     input_type |-> a.input_type,
     maxchar |-> a.maxchar,
     maxwidth |-> a.maxwidth]

\* TextInput.__init__: "Set default value", the default being valid
set_default(w, default) ==
    update_input_string(
        move_cursor_right_times([w EXCEPT !.input_string = default], Len(default) + 1),
        default)

\* init_raises without "if maxwidth < 0: raise ValueError"
init_raises_unchecked_maxwidth(a) ==
    \/ a.maxchar < 0
    \/ a.history < 0
    \/ ~check_input_type(a.input_type, a.default)

\* TextInput.__init__: whether it raises ValueError
init_raises(a) ==
    \/ a.maxchar < 0
    \/ a.maxwidth < 0
    \/ a.history < 0
    \/ ~check_input_type(a.input_type, a.default)

\* TextInput.__init__
init(a) ==
    IF init_raises(a) THEN Outcome(NoWidget, "None", "ValueError", 0)
    ELSE Outcome(set_default(new_fields(a), a.default), "None", "none", 0)

-----------------------------------------------------------------------------
(* Sound: the fields of the object are the fields of the record s, the mixer
   the record m *)

SOUND_TYPE_CLICK_MOUSE == "__pygameMenu_sound_click_mouse__"
SOUND_TYPE_CLOSE_MENU == "__pygameMenu_sound_close_menu__"
SOUND_TYPE_ERROR == "__pygameMenu_sound_error__"
SOUND_TYPE_EVENT == "__pygameMenu_sound_event__"
SOUND_TYPE_EVENT_ERROR == "__pygameMenu_sound_event_error__"
SOUND_TYPE_KEY_ADDITION == "__pygameMenu_sound_key_addition__"
SOUND_TYPE_KEY_DELETION == "__pygameMenu_sound_key_deletion__"
SOUND_TYPE_OPEN_MENU == "__pygameMenu_sound_open_menu__"

\* Sound.__init__: self._type_sounds
type_sounds ==
    {SOUND_TYPE_CLICK_MOUSE, SOUND_TYPE_CLOSE_MENU, SOUND_TYPE_ERROR,
     SOUND_TYPE_EVENT, SOUND_TYPE_EVENT_ERROR, SOUND_TYPE_KEY_ADDITION,
     SOUND_TYPE_KEY_DELETION, SOUND_TYPE_OPEN_MENU}

NoSound == "NoSound"

\* the mixer's channels, in the order find_channel() looks through them
Channels == <<"channel0", "channel1">>

\* a channel that plays nothing
Idle == [playing |-> "none", left |-> 0]

\* the mixer when the Sound object is made: every channel idle, at time 0
NoMixer == [channels |-> [c \in 1..Len(Channels) |-> Idle], now |-> 0, ops |-> <<>>]

\* the mixer as an operation finds it: no call made yet
called(m) == [m EXCEPT !.ops = <<>>]

\* Channel.get_busy() of the c-th channel
busy(m, c) == m.channels[c].playing # "none"

\* pygame.mixer.find_channel(): the first channel that is not busy, None when
\* all are
find_channel(m) ==
    IF \E c \in 1..Len(Channels) : ~busy(m, c)
    THEN Channels[CHOOSE c \in 1..Len(Channels) :
                      ~busy(m, c) /\ \A d \in 1..c - 1 : busy(m, d)]
    ELSE "None"

\* the index of a channel
channel_index(channel) == CHOOSE c \in 1..Len(Channels) : Channels[c] = channel

\* Channel.stop()
channel_stop(m, channel) ==
    [m EXCEPT !.channels[channel_index(channel)] = Idle,
              !.ops = Append(@, <<"stop", channel>>)]

\* Channel.play(sound['file'], loops=0, maxtime=0, fade_ms=0): the channel
\* plays the sound for its length
channel_play(m, channel, snd) ==
    [m EXCEPT !.channels[channel_index(channel)] =
                  [playing |-> snd.type, left |-> snd.length],
              !.ops = Append(@, <<"play", channel, snd.type>>)]

\* the files of the model: the length in time units of a sound file, 0 for
\* a file that is none
file_length(file) == IF file = "sound.ogg" THEN 6 ELSE 0

\* os.path.isfile(file)
isfile(file) == file \in {"sound.ogg", "noise.ogg"}

\* pygame.mixer.Sound(file=file) does not raise pygame.error
decodes(file) == file = "sound.ogg"

\* a sound type that is disabled: the empty dict
Disabled == [type |-> "none", path |-> "none", length |-> 0]

\* an outcome of a call on the Sound object: the object and the mixer after it,
\* what it returned and what it raised
SoundOutcome(obj, m, value, exc) ==
    [obj |-> obj, mixer |-> m, ret |-> value, raised |-> exc]

\* Sound.__init__
sound_init(uniquechannel) ==
    [channel |-> "None",
     uniquechannel |-> uniquechannel,
     sound |-> [t \in type_sounds |-> Disabled],
     last_play |-> "0",
     last_time |-> 0]

\* Sound.get_channel: the object afterwards
get_channel(s, m) ==
    IF s.uniquechannel
    THEN IF s.channel = "None" THEN [s EXCEPT !.channel = find_channel(m)] ELSE s
    ELSE [s EXCEPT !.channel = find_channel(m)]

\* set_sound without the test of the file's existence: a missing file is only
\* found by the mixer, which cannot load it
set_sound_unchecked_file(s, m, sound_type, file) ==
    IF sound_type \notin type_sounds THEN SoundOutcome(s, m, "None", "ValueError")
    ELSE IF file = "None" \/ ~isfile(file) \/ ~decodes(file)
    THEN SoundOutcome([s EXCEPT !.sound[sound_type] = Disabled], m, "None", "none")
    ELSE SoundOutcome(
             [s EXCEPT !.sound[sound_type] =
                  [type |-> sound_type, path |-> file, length |-> file_length(file)]],
             m, "None", "none")

\* Sound.set_sound(sound, file), the other arguments at their defaults
set_sound(s, m, sound_type, file) ==
    IF sound_type \notin type_sounds THEN SoundOutcome(s, m, "None", "ValueError")
    ELSE IF file = "None"
    THEN SoundOutcome([s EXCEPT !.sound[sound_type] = Disabled], m, "None", "none")
    ELSE IF ~isfile(file) THEN SoundOutcome(s, m, "None", "FileNotFoundError")
    ELSE IF ~decodes(file)
    THEN SoundOutcome([s EXCEPT !.sound[sound_type] = Disabled], m, "None", "none")
    ELSE SoundOutcome(
             [s EXCEPT !.sound[sound_type] =
                  [type |-> sound_type, path |-> file, length |-> file_length(file)]],
             m, "None", "none")

\* _play_sound: "If the previous sound is the same and has not ended (max 20%
\* overlap)": the condition under which the sound is played
plays(s, m, snd) ==
    \/ snd.type # s.last_play
    \/ 5 * (m.now - s.last_time) >= snd.length
    \/ s.uniquechannel

\* the same without the stop of a unique channel
play_on_channel_unstopped(s, m, snd) ==
    SoundOutcome(
        [s EXCEPT !.last_play = snd.type, !.last_time = m.now],
        IF plays(s, m, snd) THEN channel_play(m, s.channel, snd) ELSE m,
        "None", "none")

\* _play_sound, from "Play the sound" on: s is the object after get_channel()
play_on_channel(s, m, snd) ==
    SoundOutcome(
        [s EXCEPT !.last_play = snd.type, !.last_time = m.now],
        IF plays(s, m, snd)
        THEN channel_play(IF s.uniquechannel THEN channel_stop(m, s.channel) ELSE m,
                          s.channel, snd)
        ELSE m,
        "None", "none")

\* _play_sound, from "Find an avaiable channel" on: s is the object after
\* get_channel()
play_found(s, m, snd) ==
    IF s.channel = "None" THEN SoundOutcome(s, m, "None", "none")
    ELSE play_on_channel(s, m, snd)

\* _play_sound without the test "if not sound"
play_sound_unchecked(s, m, snd) == play_found(get_channel(s, m), m, snd)

\* Sound._play_sound
play_sound(s, m, snd) ==
    IF snd = Disabled THEN SoundOutcome([s EXCEPT !.channel = "None"], m, "None", "none")
    ELSE play_found(get_channel(s, m), m, snd)

\* the play_* methods
PlayMethods ==
    {"play_click_mouse", "play_error", "play_event", "play_event_error",
     "play_key_add", "play_key_del", "play_open_menu", "play_close_menu"}

\* the sound type a play_* method plays
played_type(method) ==
    CASE method = "play_click_mouse" -> SOUND_TYPE_CLICK_MOUSE
      [] method = "play_error" -> SOUND_TYPE_ERROR
      [] method = "play_event" -> SOUND_TYPE_EVENT
      [] method = "play_event_error" -> SOUND_TYPE_EVENT_ERROR
      [] method = "play_key_add" -> SOUND_TYPE_KEY_ADDITION
      [] method = "play_key_del" -> SOUND_TYPE_KEY_DELETION
      [] method = "play_open_menu" -> SOUND_TYPE_OPEN_MENU
      [] method = "play_close_menu" -> SOUND_TYPE_CLOSE_MENU

\* Sound.play_click_mouse, ..., Sound.play_close_menu
play(s, m, method) == play_sound(s, m, s.sound[played_type(method)])

\* the mixer one time unit later: a sound that has played its length ends
mixer_after(m) ==
    [m EXCEPT !.now = @ + 1,
              !.channels = [c \in 1..Len(Channels) |->
                               IF m.channels[c].left <= 1 THEN Idle
                               ELSE [m.channels[c] EXCEPT !.left = @ - 1]]]

-----------------------------------------------------------------------------
(* The keyboard: which keys are held, and for how long *)

MaxClock == 4

NoKeys == <<>>

\* a key just pressed: the unicode of its KEYDOWN, the frame time since the press
\* (press), since the last repeat posted for it (repeat, -1 before the first) and
\* between the last two repeats, or the press and the first (gap, -1 before it)
Pressed(unicode) == [unicode |-> unicode, press |-> 0, repeat |-> -1, gap |-> -1]

\* the keys held after the events of one update() call, of which the loop of
\* update() reached the first `handled`: a KEYDOWN the loop handled presses its
\* key, a KEYUP delivered releases it
RECURSIVE keys_after(_, _, _, _)
keys_after(kb, events, i, handled) ==
    IF i > Len(events) THEN kb
    ELSE LET e == events[i]
             kb1 == IF e.type = KEYUP
                    THEN [k \in DOMAIN kb \ {e.key} |-> kb[k]]
                    ELSE IF /\ e.type = KEYDOWN /\ e.valid /\ i <= handled
                            /\ e.key \notin DOMAIN kb
                    THEN (e.key :> Pressed(e.unicode)) @@ kb
                    ELSE kb
         IN keys_after(kb1, events, i + 1, handled)

\* the held keys after a frame of time_clock ms in which the widget posted
\* repeats for the keys of `repeated`
clock_after(kb, time_clock, repeated) ==
    [k \in DOMAIN kb |->
        LET since == IF kb[k].repeat < 0 THEN kb[k].press ELSE kb[k].repeat
        IN [unicode |-> kb[k].unicode,
            press |-> Min(kb[k].press + time_clock, MaxClock),
            repeat |-> IF k \in repeated THEN 0
                       ELSE IF kb[k].repeat < 0 THEN -1
                       ELSE Min(kb[k].repeat + time_clock, MaxClock),
            gap |-> IF k \in repeated THEN Min(since + time_clock, MaxClock)
                    ELSE kb[k].gap]]

-----------------------------------------------------------------------------
(* The widget under key events *)

MaxHistory == 2
MaxLen == 2

Clipboards == {<<>>, <<" ", "1", "\n">>}

KeyDown(key, unicode) == Event(KEYDOWN, key, unicode, FALSE, <<>>, TRUE)
KeyUp(key) == Event(KEYUP, key, <<>>, FALSE, <<>>, TRUE)
CtrlDown(key, clip) == Event(KEYDOWN, key, <<>>, TRUE, clip, TRUE)

TextKeyDowns == {KeyDown("K_1", <<"1">>)}
MoveKeyDowns == {KeyDown(k, <<>>) : k \in {K_RIGHT, K_LEFT, K_END, K_HOME}}
DeleteKeyDowns == {KeyDown(K_BACKSPACE, <<"\\x08">>), KeyDown(K_DELETE, <<"\\x7f">>)}
CtrlKeyDowns ==
    {CtrlDown(k, <<>>) : k \in {K_c, K_z, K_y, K_x}}
    \cup {CtrlDown(K_v, clip) : clip \in Clipboards}

KeyDowns == TextKeyDowns \cup MoveKeyDowns \cup DeleteKeyDowns \cup CtrlKeyDowns

\* the calls TextInput(default=..., history=...) of a text field
EditArgs ==
    [default : {<<>>}, input_type : {PYGAME_INPUT_TEXT},
     history : 0..MaxHistory, maxchar : {0}, maxwidth : {0},
     repeat_keys_initial_ms : {4}, repeat_keys_interval_ms : {2}]

Init ==
    /\ pc = "new"
    /\ args = NoArgs
    /\ textinput = NoWidget
    /\ ret = "None"
    /\ raised = "none"
    /\ changes = 0
    /\ posted = {}
    /\ keyboard = NoKeys
    /\ sound = NoSound
    /\ mixer = NoMixer

\* TextInput(default=..., input_type=..., history=..., maxchar=..., maxwidth=...)
Construct(a) ==
    /\ pc = "new"
    /\ \E o \in {init(a)} :
          /\ pc' = IF o.raised = "none" THEN "widget" ELSE "raised"
          /\ textinput' = o.obj
          /\ raised' = o.raised
    /\ args' = a
    /\ UNCHANGED <<ret, changes, posted, keyboard, sound, mixer>>

\* a frame: widget.update(repeats + events), the clock's get_time() being
\* time_clock; repeats are the KEYDOWNs the widget posted in the frame before,
\* events what the keyboard did since
\* the text afterwards of at most n characters, the cursor and the right end of
\* the render window, which a text no longer than maxwidth lets grow with every
\* character typed, at most one past them
FrameUpTo(n, repeats, events, time_clock) ==
    /\ pc = "widget"
    /\ \E o \in {update(textinput, repeats \o events, time_clock)} :
          /\ Len(o.obj.input_string) <= n
          /\ o.obj.cursor_position <= n + 1
          /\ o.obj.renderbox[2] <= n + 1
          /\ textinput' = o.obj
          /\ ret' = o.ret
          /\ raised' = o.raised
          /\ changes' = o.changes
          /\ posted' = o.posted
          /\ keyboard' = clock_after(keys_after(keyboard, repeats \o events,
                                                Len(repeats) + 1, o.handled),
                                     time_clock, {p[1] : p \in o.posted})
    /\ UNCHANGED <<pc, args, sound, mixer>>

\* a frame of a text of at most MaxLen characters
Frame(repeats, events, time_clock) == FrameUpTo(MaxLen, repeats, events, time_clock)

\* widget.update(events), the clock's get_time() being time_clock
Update(events, time_clock) == Frame(<<>>, events, time_clock)

\* a key goes down while no other is held; the frame delivers its KEYDOWN
Press(e) ==
    /\ keyboard = NoKeys
    /\ Update(<<e>>, 0)

\* the held key goes up; the frame delivers its KEYUP
Release ==
    \E k \in DOMAIN keyboard : Update(<<KeyUp(k)>>, 0)

Next ==
    \/ \E a \in EditArgs : Construct(a)
    \/ \E e \in KeyDowns : Press(e)
    \/ Release

Spec == Init /\ [][Next]_vars

\* the same with a history one longer: the call TextInput(history=...) of a text
\* field that keeps the default, an edition and the edition after it
RedoArgs ==
    [default : {<<>>}, input_type : {PYGAME_INPUT_TEXT},
     history : {MaxHistory + 1}, maxchar : {0}, maxwidth : {0},
     repeat_keys_initial_ms : {4}, repeat_keys_interval_ms : {2}]

RedoNext ==
    \/ \E a \in RedoArgs : Construct(a)
    \/ \E e \in KeyDowns : Press(e)
    \/ Release

SpecRedo == Init /\ [][RedoNext]_vars

-----------------------------------------------------------------------------
(* Properties of the history of editions *)

EditKeyDowns ==
    TextKeyDowns \cup DeleteKeyDowns
    \cup {CtrlDown(K_v, clip) : clip \in Clipboards} \cup {CtrlDown(K_x, <<>>)}
UndoKeyDown == CtrlDown(K_z, <<>>)
RedoKeyDown == CtrlDown(K_y, <<>>)

\* C2: with history >= 2, when an edit handled by update() (a typed character,
\* Backspace, Delete, paste or cut) changes the text, an Undo handled right after
\* it returns True and sets the text back to what it was before the edit.
C2_UndoRevertsEdit ==
    pc = "widget" /\ textinput.max_history >= 2 =>
        \A e \in EditKeyDowns :
            LET edit == update(textinput, <<e>>, 0)
                back == update(edit.obj, <<UndoKeyDown>>, 0)
            IN edit.obj.input_string # textinput.input_string =>
                   /\ back.ret = "True"
                   /\ back.obj.input_string = textinput.input_string

\* C3: whenever Undo returns True, a Redo handled right after it restores the
\* text to the value it had just before the Undo.
C3_RedoRevertsUndo ==
    pc = "widget" =>
        LET back == update(textinput, <<UndoKeyDown>>, 0)
            forth == update(back.obj, <<RedoKeyDown>>, 0)
        IN back.ret = "True" =>
               forth.obj.input_string = textinput.input_string

\* the last n entries of a sequence
LastN(s, n) == SubSeq(s, Len(s) - n + 1, Len(s))

C7_ChangeIffTextChanges ==
    [][pc = "widget" =>
          changes' = IF textinput'.input_string # textinput.input_string
                     THEN 1 ELSE 0]_vars

-----------------------------------------------------------------------------
(* The input-type check and get_value on their own *)

MaxString == 3

CheckChars == {"0", "1", ".", "-", "a"}

\* the strings of at most n characters
StringsUpTo(n) == UNION {[1..k -> CheckChars] : k \in 0..n}

InputTypes ==
    {PYGAME_INPUT_TEXT, PYGAME_INPUT_INT, PYGAME_INPUT_FLOAT, OTHER_INPUT}

CheckArgs == [input_type : InputTypes, string : StringsUpTo(MaxString)]

CheckInit ==
    /\ pc = "args"
    /\ args \in CheckArgs
    /\ textinput = NoWidget
    /\ ret = "None"
    /\ raised = "none"
    /\ changes = 0
    /\ posted = {}
    /\ keyboard = NoKeys
    /\ sound = NoSound
    /\ mixer = NoMixer

\* self._check_input_type(string) on a widget of the input type
CheckInputType ==
    /\ pc = "args"
    /\ pc' = "checked"
    /\ ret' = IF check_input_type(args.input_type, args.string)
              THEN "True" ELSE "False"
    /\ UNCHANGED <<args, textinput, raised, changes, posted, keyboard, sound, mixer>>

\* get_value() on a widget of the input type whose text is the string
GetValue ==
    /\ pc = "args"
    /\ pc' = "value"
    /\ ret' = get_value(args.input_type, args.string)
    /\ UNCHANGED <<args, textinput, raised, changes, posted, keyboard, sound, mixer>>

CheckNext == CheckInputType \/ GetValue

SpecCheck == CheckInit /\ [][CheckNext]_vars

\* C5: the input-type check accepts a string exactly when it matches the type
\* of the field: any string of a text field; of an int field the empty string,
\* "-" and what parses as an integer; of a float field the empty string, "-"
\* and what parses as a float.
C5_CheckMatchesType ==
    pc = "checked" =>
        /\ args.input_type = PYGAME_INPUT_TEXT => ret = "True"
        /\ args.input_type = PYGAME_INPUT_INT =>
              (ret = "True" <=> args.string \in {<<>>, <<"-">>}
                                \/ int_parses(args.string))
        /\ args.input_type = PYGAME_INPUT_FLOAT =>
              (ret = "True" <=> args.string \in {<<>>, <<"-">>}
                                \/ float_parses(args.string))

RECURSIVE Pow10(_)
Pow10(n) == IF n <= 0 THEN 1 ELSE 10 * Pow10(n - 1)

\* the decimal digits of n, written with len digits
Decimal(n, len) ==
    [i \in 1..len |-> IF (n \div Pow10(len - i)) % 10 = 1 THEN "1"
                      ELSE IF (n \div Pow10(len - i)) % 10 = 0 THEN "0" ELSE "?"]

\* the string s, a sign and digits around at most one point, writes the number v
Denotes(s, v) ==
    LET u == Unsigned(s)
        digits == SelectSeq(u, LAMBDA c : c # ".")
        after == Cardinality({i \in 1..Len(u) : \E j \in 1..i - 1 : u[j] = "."})
    IN \E n \in 0..Pow10(Len(digits)) - 1 :
          /\ Decimal(n, Len(digits)) = digits
          /\ sign_of(s) * n * Pow10(v.scale) = v.num * Pow10(after)

\* C6: get_value() returns the text of a text field unchanged, of an int (float)
\* field the integer (float) the text denotes and 0 when the text does not parse
\* as one (the empty text and "-" too), and of any other field the empty string;
\* it never raises.
C6_GetValue ==
    pc = "value" =>
        /\ raised = "none"
        /\ args.input_type = PYGAME_INPUT_TEXT =>
              ret = [kind |-> "str", text |-> args.string]
        /\ args.input_type = PYGAME_INPUT_INT =>
              IF int_parses(args.string)
              THEN ret.kind = "int" /\ Denotes(args.string, ret)
              ELSE ret.kind # "str" /\ ret.num = 0
        /\ args.input_type = PYGAME_INPUT_FLOAT =>
              IF float_parses(args.string)
              THEN ret.kind = "float" /\ Denotes(args.string, ret)
              ELSE ret.kind # "str" /\ ret.num = 0
        /\ args.input_type = OTHER_INPUT =>
              ret = [kind |-> "str", text |-> <<>>]

\* C6: get_value() has read "-.1" of a float field as -1/10
C6_Witness ==
    /\ pc = "value"
    /\ args.input_type = PYGAME_INPUT_FLOAT
    /\ args.string = <<"-", ".", "1">>
    /\ ret = Number("float", -1, 1)
-----------------------------------------------------------------------------
(* Construction with any arguments, and typing into a bounded field *)

MaxChar == 1

K_PERIOD == "K_PERIOD"

\* the calls TextInput(default=..., input_type=..., history=..., maxchar=...,
\* maxwidth=...), the arguments the constructor rejects among them
InputArgs ==
    [default : {<<>>, <<"1">>, <<".">>}, input_type : InputTypes,
     history : {-1, 1}, maxchar : -1..MaxChar, maxwidth : {-1, 0},
     repeat_keys_initial_ms : {4}, repeat_keys_interval_ms : {2}]

InputKeyDowns ==
    {KeyDown("K_1", <<"1">>), KeyDown(K_PERIOD, <<".">>),
     KeyDown(K_BACKSPACE, <<"\\x08">>), KeyDown(K_LEFT, <<>>),
     CtrlDown(K_v, <<"1", "\n", ".">>), CtrlDown(K_z, <<>>)}

InputNext ==
    \/ \E a \in InputArgs : Construct(a)
    \/ \E e \in InputKeyDowns : Press(e)
    \/ Release

SpecInput == Init /\ [][InputNext]_vars

\* C1: the text of a field constructed with maxchar = M > 0 and a default of at
\* most M characters never has more than M characters.
C1_LengthBounded ==
    pc = "widget" /\ textinput.maxchar > 0
                  /\ Len(args.default) <= textinput.maxchar =>
        Len(textinput.input_string) <= textinput.maxchar

\* C8: the constructor raises ValueError when maxchar, maxwidth or history is
\* negative or the default fails the input-type check, and then makes no
\* widget; otherwise it makes the widget.
C8_InitRaises ==
    pc # "new" =>
        IF \/ args.maxchar < 0
           \/ args.maxwidth < 0
           \/ args.history < 0
           \/ ~check_input_type(args.input_type, args.default)
        THEN pc = "raised" /\ raised = "ValueError" /\ textinput = NoWidget
        ELSE pc = "widget"

\* C8: the constructor has raised ValueError for a negative maxwidth alone
C8_Witness ==
    /\ pc = "raised"
    /\ raised = "ValueError"
    /\ args.maxwidth < 0
    /\ args.maxchar >= 0
    /\ args.history >= 0
    /\ check_input_type(args.input_type, args.default)
-----------------------------------------------------------------------------
(* Frames of the event loop: a key pressed, held and released over time *)

MaxDt == 2

\* the call TextInput(maxchar=1, history=0, repeat_keys_initial_ms=4,
\* repeat_keys_interval_ms=2)
KeysArgs ==
    [default : {<<>>}, input_type : {PYGAME_INPUT_TEXT}, history : {0},
     maxchar : {1}, maxwidth : {0},
     repeat_keys_initial_ms : {4}, repeat_keys_interval_ms : {2}]

\* the KEYDOWNs of the key "1": alone, with Shift, with Ctrl
Downs ==
    {KeyDown("K_1", <<"1">>), KeyDown("K_1", <<"!">>),
     Event(KEYDOWN, "K_1", <<"1">>, TRUE, <<>>, TRUE)}

\* what the key can do within one frame, given the keys held before
KeyboardEvents(kb) ==
    IF "K_1" \in DOMAIN kb
    THEN {<<>>, <<KeyUp("K_1")>>} \cup {<<KeyUp("K_1"), d>> : d \in Downs}
    ELSE {<<>>} \cup {<<d>> : d \in Downs} \cup {<<d, KeyUp("K_1")>> : d \in Downs}

\* the posted KEYDOWNs as the next frame's queue holds them, in any order; the
\* Ctrl state and check_key_pressed_valid are read when the event is handled
PostedEvents(p) ==
    {q \in [1..Cardinality(p) ->
              {Event(KEYDOWN, e[1], e[2], c, <<>>, v) :
                  e \in p, c \in BOOLEAN, v \in BOOLEAN}] :
        \A i, j \in DOMAIN q : q[i].key = q[j].key => i = j}

KeysNext ==
    \/ \E a \in KeysArgs : Construct(a)
    \/ \E r \in PostedEvents(posted), e \in KeyboardEvents(keyboard),
          time_clock \in 0..MaxDt : Frame(r, e, time_clock)

SpecKeys == Init /\ [][KeysNext]_vars

\* C9: a repeat KEYDOWN posted for a held key comes no sooner than
\* repeat_keys_initial_ms of frame time after the press and no sooner than
\* repeat_keys_interval_ms after the repeat before it, and it carries the key's
\* unicode of the press.
C9_KeyRepeat ==
    pc = "widget" =>
        \A p \in posted :
            p[1] \in DOMAIN keyboard =>
                LET key == keyboard[p[1]]
                IN /\ key.press >= textinput.keyrepeat_initial_interval_ms
                   /\ \/ key.gap = key.press
                      \/ key.gap >= textinput.keyrepeat_interval_ms
                   /\ p[2] = key.unicode
-----------------------------------------------------------------------------
(* The sound manager over the mixer *)

MaxTime == 6

SoundTypes == {SOUND_TYPE_CLICK_MOUSE, SOUND_TYPE_ERROR, "other"}
SoundFiles == {"None", "sound.ogg", "noise.ogg", "missing.ogg"}

\* Sound(uniquechannel=...)
ConstructSound(uniquechannel) ==
    /\ pc = "new"
    /\ pc' = "sound"
    /\ args' = [uniquechannel |-> uniquechannel]
    /\ sound' = sound_init(uniquechannel)
    /\ UNCHANGED <<textinput, ret, raised, changes, posted, keyboard, mixer>>

\* sound.get_channel()
GetChannel ==
    /\ pc = "sound"
    /\ sound' = get_channel(sound, mixer)
    /\ ret' = sound'.channel
    /\ raised' = "none"
    /\ mixer' = called(mixer)
    /\ UNCHANGED <<pc, args, textinput, changes, posted, keyboard>>

\* sound.set_sound(sound_type, file)
SetSound(sound_type, file) ==
    /\ pc = "sound"
    /\ \E o \in {set_sound(sound, called(mixer), sound_type, file)} :
          /\ sound' = o.obj
          /\ mixer' = o.mixer
          /\ ret' = o.ret
          /\ raised' = o.raised
    /\ UNCHANGED <<pc, args, textinput, changes, posted, keyboard>>

\* sound.play_click_mouse(), ..., sound.play_close_menu()
Play(method) ==
    /\ pc = "sound"
    /\ \E o \in {play(sound, called(mixer), method)} :
          /\ sound' = o.obj
          /\ mixer' = o.mixer
          /\ ret' = o.ret
          /\ raised' = o.raised
    /\ UNCHANGED <<pc, args, textinput, changes, posted, keyboard>>

\* a time unit passes
Tick ==
    /\ pc = "sound"
    /\ mixer.now < MaxTime
    /\ mixer' = mixer_after(mixer)
    /\ UNCHANGED <<pc, args, textinput, ret, raised, changes, posted, keyboard, sound>>

SoundNext ==
    \/ \E uniquechannel \in BOOLEAN : ConstructSound(uniquechannel)
    \/ GetChannel
    \/ \E sound_type \in SoundTypes, file \in SoundFiles : SetSound(sound_type, file)
    \/ \E method \in PlayMethods : Play(method)
    \/ Tick

SpecSound == Init /\ [][SoundNext]_vars

\* C10: with uniquechannel=True and a channel stored, get_channel() still
\* returns that channel after any play_* call, a play of a disabled sound
\* included.
C10_ChannelUnique ==
    pc = "sound" /\ sound.uniquechannel /\ sound.channel # "None" =>
        \A method \in PlayMethods :
            LET o == play(sound, mixer, method)
            IN get_channel(o.obj, o.mixer).channel = sound.channel

\* a call has started a sound on the mixer
starts(m) == \E i \in 1..Len(m.ops) : m.ops[i][1] = "play"

\* a sound of the type of snd was started on the mixer less than 0.2 x its
\* length ago (it is then still playing: nothing stops a channel that is not
\* unique)
started_lately(m, snd) ==
    \E c \in 1..Len(Channels) :
        /\ m.channels[c].playing = snd.type
        /\ 5 * (snd.length - m.channels[c].left) < snd.length

\* C11: with uniquechannel=False and a channel available, a request to play a
\* configured sound starts it unless a sound of the same type was started less
\* than 0.2 x its length earlier.
C11_OverlapLimit ==
    pc = "sound" /\ ~sound.uniquechannel /\ find_channel(mixer) # "None" =>
        \A method \in PlayMethods :
            LET snd == sound.sound[played_type(method)]
            IN snd # Disabled /\ ~started_lately(mixer, snd) =>
                   starts(play(sound, called(mixer), method).mixer)

\* the eight SOUND_TYPE_* constants
SoundTypeConstants ==
    {SOUND_TYPE_CLICK_MOUSE, SOUND_TYPE_CLOSE_MENU, SOUND_TYPE_ERROR,
     SOUND_TYPE_EVENT, SOUND_TYPE_EVENT_ERROR, SOUND_TYPE_KEY_ADDITION,
     SOUND_TYPE_KEY_DELETION, SOUND_TYPE_OPEN_MENU}

\* the play_* methods behave on the object s as they do on the object t
plays_alike(s, t, m, methods) ==
    \A method \in methods :
        play(s, m, method).mixer = play(t, m, method).mixer

\* C12: set_sound raises ValueError for a sound type that is none of the eight
\* constants and FileNotFoundError for a file that does not exist; the
\* configured sounds are then what they were, and play as they did.
C12_SetSoundRaises ==
    pc = "sound" =>
        \A sound_type \in SoundTypes, file \in SoundFiles :
            LET o == set_sound(sound, called(mixer), sound_type, file)
                wrong_type == sound_type \notin SoundTypeConstants
                no_file == file # "None" /\ ~isfile(file)
            IN /\ wrong_type => o.raised = "ValueError"
               /\ ~wrong_type /\ no_file => o.raised = "FileNotFoundError"
               /\ wrong_type \/ no_file =>
                      /\ o.obj.sound = sound.sound
                      /\ plays_alike(o.obj, sound, o.mixer, PlayMethods)

\* set_sound has raised FileNotFoundError, or ValueError, on an object that
\* has a sound configured, which is still configured
C12_Witness ==
    /\ pc = "sound"
    /\ raised \in {"FileNotFoundError", "ValueError"}
    /\ sound.sound[SOUND_TYPE_CLICK_MOUSE].path = "sound.ogg"

\* C13: set_sound(type, None) and set_sound with a file that the mixer cannot
\* decode raise nothing and disable the type, the other types playing as they
\* did; the play_* call of a disabled type starts nothing on any channel.
C13_DisabledIsSilent ==
    pc = "sound" =>
        /\ \A method \in PlayMethods :
               sound.sound[played_type(method)] = Disabled =>
                   ~starts(play(sound, called(mixer), method).mixer)
        /\ \A sound_type \in SoundTypeConstants \cap SoundTypes,
              file \in {f \in SoundFiles : f = "None" \/ (isfile(f) /\ ~decodes(f))} :
               LET o == set_sound(sound, called(mixer), sound_type, file)
               IN /\ o.raised = "none"
                  /\ o.obj.sound[sound_type] = Disabled
                  /\ \A t \in SoundTypeConstants \ {sound_type} :
                         o.obj.sound[t] = sound.sound[t]
                  /\ plays_alike(o.obj, sound, o.mixer,
                                 {method \in PlayMethods :
                                      played_type(method) # sound_type})

\* a sound that was playing has been disabled by set_sound, and a play_* call
\* of a disabled type has since started nothing: it left no channel stored,
\* with a channel free
C13_Witness ==
    /\ pc = "sound"
    /\ sound.last_play = SOUND_TYPE_CLICK_MOUSE
    /\ sound.sound[SOUND_TYPE_CLICK_MOUSE] = Disabled
    /\ busy(mixer, 1)
    /\ ~busy(mixer, 2)
    /\ sound.channel = "None"
    /\ mixer.ops = <<>>

\* C14: whatever key events update() has handled, the cursor is inside the
\* text: 0 <= _cursor_position <= len(_input_string).
C14_CursorInText ==
    pc = "widget" =>
        /\ 0 <= textinput.cursor_position
        /\ textinput.cursor_position <= Len(textinput.input_string)

-----------------------------------------------------------------------------
(* The render window of a text field of limited width *)

MaxWidth == 1
MaxWideLen == 3

\* the calls TextInput(maxwidth=W, history=...) with W > 0
WidthArgs ==
    [default : {<<>>}, input_type : {PYGAME_INPUT_TEXT},
     history : {0, 1}, maxchar : {0}, maxwidth : 1..MaxWidth,
     repeat_keys_initial_ms : {4}, repeat_keys_interval_ms : {2}]

\* typing, Backspace, Delete, the arrows, Home, End, paste, undo and redo
WidthKeyDowns ==
    TextKeyDowns \cup MoveKeyDowns \cup DeleteKeyDowns
    \cup {CtrlDown(k, <<>>) : k \in {K_z, K_y}}
    \cup {CtrlDown(K_v, clip) : clip \in Clipboards}

\* a key goes down on the field of limited width, no other being held
WidthPress(e) ==
    /\ keyboard = NoKeys
    /\ FrameUpTo(MaxWideLen, <<>>, <<e>>, 0)

\* the held key goes up
WidthRelease ==
    \E k \in DOMAIN keyboard : FrameUpTo(MaxWideLen, <<>>, <<KeyUp(k)>>, 0)

WidthNext ==
    \/ \E a \in WidthArgs : Construct(a)
    \/ \E e \in WidthKeyDowns : WidthPress(e)
    \/ WidthRelease

SpecWidth == Init /\ [][WidthNext]_vars

\* C15: with maxwidth = W > 0 and a text longer than W, the render window
\* [left, right] has 0 <= left, right <= len(text) and right - left = W.
C15_RenderWindow ==
    pc = "widget" /\ textinput.maxwidth > 0
        /\ Len(textinput.input_string) > textinput.maxwidth =>
            /\ 0 <= textinput.renderbox[1]
            /\ textinput.renderbox[2] <= Len(textinput.input_string)
            /\ textinput.renderbox[2] - textinput.renderbox[1] = textinput.maxwidth

-----------------------------------------------------------------------------
(* The release of a key *)

\* the batches of events that end with the KEYUP of the key "1"
ReleaseBatches == {<<KeyUp("K_1")>>} \cup {<<d, KeyUp("K_1")>> : d \in Downs}

\* after the call of update() with outcome o, the key k does not repeat
stopped(o, k) ==
    /\ k \notin DOMAIN o.obj.keyrepeat_counters
    /\ ~o.obj.key_is_pressed
    /\ \A p \in o.posted : p[1] # k

\* C16: when the batch given to update() has a KEYUP of key k and no KEYDOWN
\* of k after it, whatever comes before it, then on return k has no entry in
\* _keyrepeat_counters, _key_is_pressed is False and no repeat KEYDOWN of k is
\* posted, in this frame or in a later one while k stays up.
C16_ReleaseStopsRepeat ==
    pc = "widget" =>
        /\ \A events \in ReleaseBatches, time_clock \in 0..MaxDt :
               stopped(update(textinput, events, time_clock), "K_1")
        /\ \A p \in posted : p[1] \in DOMAIN keyboard

\* C17: with uniquechannel=True and a channel stored, a play request for a
\* configured sound stops the channel and then starts the requested sound on
\* it, whatever was requested before and when; that sound is then the one
\* playing on the channel, which stays the stored one.
C17_UniqueChannelReplays ==
    pc = "sound" /\ sound.uniquechannel /\ sound.channel # "None" =>
        \A method \in PlayMethods :
            LET snd == sound.sound[played_type(method)]
                o == play(sound, called(mixer), method)
            IN snd # Disabled =>
                   /\ o.mixer.ops = <<<<"stop", sound.channel>>,
                                      <<"play", sound.channel, snd.type>>>>
                   /\ o.mixer.channels[channel_index(sound.channel)] =
                          [playing |-> snd.type, left |-> snd.length]
                   /\ o.obj.channel = sound.channel
                   /\ o.raised = "none"

\* the unique channel is stored and a sound has just been started on it after
\* a stop, another type being configured too: a request now, of the same type
\* or of the other, follows one of the same time
C17_Witness ==
    /\ pc = "sound"
    /\ sound.uniquechannel
    /\ sound.channel = "channel0"
    /\ sound.sound[SOUND_TYPE_CLICK_MOUSE] # Disabled
    /\ sound.last_play = SOUND_TYPE_ERROR
    /\ sound.last_time = mixer.now
    /\ mixer.now > 0
    /\ mixer.ops = <<<<"stop", "channel0">>, <<"play", "channel0", SOUND_TYPE_ERROR>>>>
    /\ mixer.channels[1] = [playing |-> SOUND_TYPE_ERROR, left |-> 6]
====
